---- MODULE Spec2Model ----
(***************************************************************************)
(* Toolchain registry of srclib (package toolchain): Lookup, List, newInfo *)
(* and lookInPaths over a search path (SRCLIBPATH) and a file system with  *)
(* directories, regular files and symbolic links.                          *)
(*                                                                         *)
(* A path string is the sequence of its "/"-separated components, so       *)
(*   "r1/a" is <<"r1","a">>, "." is <<".">>, "" is <<"">> and a trailing   *)
(*   slash is a trailing "" component: "r1/l/" is <<"r1","l","">>.         *)
(* The file system maps physical paths (from the working directory, <<>>)  *)
(* to nodes.                                                               *)
(***************************************************************************)
EXTENDS Integers, Sequences, FiniteSets, TLC

\* ------------------------------------------------------------------ bounds
\* Symbolic links followed in one path resolution before the kernel gives up
\* with ELOOP (40 on Linux).
MaxSymlinks == 3

\* F(x), with x evaluated once.
Bind(x, F(_)) == CHOOSE v \in { F(y) : y \in {x} } : TRUE

\* ------------------------------------------------------------------ strings
EmptyStr == <<"">>
DotStr == <<".">>

\* Every file name of the modelled file systems, in byte order (the order of
\* ioutil.ReadDir).
NameOrder ==
  <<".", ".bin", ".h", "Dockerfile", "Srclibtoolchain", "_s", "a", "l", "m",
    "r1", "r2", "srclibtoolchain", "t">>

NameIndex(n) == CHOOSE k \in 1..Len(NameOrder) : NameOrder[k] = n

\* name[0]
FirstChar(n) ==
  CASE n \in {".", ".bin", ".h"} -> "."
    [] n \in {"_s"} -> "_"
    [] n \in {"Dockerfile"} -> "D"
    [] n \in {"Srclibtoolchain"} -> "S"
    [] n \in {"srclibtoolchain"} -> "s"
    [] n \in {"r1", "r2"} -> "r"
    [] OTHER -> n

\* strings.ToLower
ToLower(n) ==
  CASE n = "Srclibtoolchain" -> "srclibtoolchain"
    [] n = "Dockerfile" -> "dockerfile"
    [] OTHER -> n

\* filepath.Clean on relative paths without "..": empty and "." components
\* go, and the empty result is ".".
Clean(p) ==
  LET q == SelectSeq(p, LAMBDA c : c /= "" /\ c /= ".")
  IN IF q = <<>> THEN DotStr ELSE q

\* filepath.Join: empty elements are ignored, the result is cleaned.
Join(p, q) == Clean(p \o q)

\* filepath.Dir
Dir(p) == Clean(SubSeq(p, 1, Len(p) - 1))

\* filepath.Base: trailing slashes are stripped first.
Base(p) == LET q == Clean(p) IN q[Len(q)]

IsPrefix(b, t) == Len(b) <= Len(t) /\ SubSeq(t, 1, Len(b)) = b

\* filepath.Rel(base, targ) for relative paths without "..": "" (with an
\* error the caller drops) when targ is not below base.
Rel(base, targ) ==
  LET b == Clean(base)
      t == Clean(targ)
  IN IF b = t THEN DotStr
     ELSE IF b = DotStr THEN t
     ELSE IF IsPrefix(b, t) THEN SubSeq(t, Len(b) + 1, Len(t))
     ELSE EmptyStr

\* a & b on permission bits
RECURSIVE BitAnd(_, _)
BitAnd(a, b) ==
  IF a = 0 \/ b = 0 THEN 0
  ELSE (a % 2) * (b % 2) + 2 * BitAnd(a \div 2, b \div 2)

\* ------------------------------------------------------------- file system
EmptyMap == [x \in {} |-> x]
NoPath == <<>>

DirNode == [kind |-> "dir", perm |-> 493, target |-> NoPath]
FileNode(perm) == [kind |-> "file", perm |-> perm, target |-> NoPath]
LinkNode(target) == [kind |-> "link", perm |-> 511, target |-> target]

\* os: an error is a record; nil is NoErr.
NoErr == [kind |-> "nil"]
Errno(e) == [kind |-> e]
ErrNotExist == Errno("ENOENT")

\* Path resolution from the working directory: the physical path `p` names,
\* or ENOENT, ENOTDIR or ELOOP. The last component is followed when it is a
\* link only with followLast (stat) or when a slash follows it.
RECURSIVE Namei(_, _, _, _, _)
Namei(fs, phys, rest, followLast, hops) ==
  IF rest = <<>> THEN [err |-> NoErr, phys |-> phys]
  ELSE LET c == Head(rest)
           tl == Tail(rest)
           q == phys \o <<c>>
       IN IF fs[phys].kind /= "dir" THEN [err |-> Errno("ENOTDIR"), phys |-> phys]
          ELSE IF c \in {"", "."} THEN Namei(fs, phys, tl, followLast, hops)
          ELSE IF q \notin DOMAIN fs THEN [err |-> ErrNotExist, phys |-> q]
          ELSE IF fs[q].kind = "link" /\ (tl /= <<>> \/ followLast)
            THEN IF hops >= MaxSymlinks
                   THEN [err |-> Errno("ELOOP"), phys |-> q]
                   ELSE Namei(fs, <<>>, fs[q].target \o tl, followLast, hops + 1)
          ELSE Namei(fs, q, tl, followLast, hops)

\* os.FileInfo
FileInfo(name, node) == [name |-> name, kind |-> node.kind, perm |-> node.perm]
NoFileInfo == [name |-> "", kind |-> "nil", perm |-> 0]

\* os.Lstat and os.Stat: [info, err]
StatOf(fs, p, r) ==
  IF r.err /= NoErr THEN [info |-> NoFileInfo, err |-> r.err]
  ELSE [info |-> FileInfo(Base(p), fs[r.phys]), err |-> NoErr]

LstatFS(fs, p) == Bind(Namei(fs, <<>>, p, FALSE, 0), LAMBDA r : StatOf(fs, p, r))

StatFS(fs, p) == Bind(Namei(fs, <<>>, p, TRUE, 0), LAMBDA r : StatOf(fs, p, r))

\* os.IsNotExist
IsNotExist(err) == err = ErrNotExist

\* ioutil.ReadDir: the entries of the directory p names, sorted by name, each
\* with its lstat information.
Entries(fs, phys, names) ==
  [list |-> [k \in 1..Len(names) |-> FileInfo(names[k], fs[phys \o <<names[k]>>])],
   err |-> NoErr]

ReadDirOf(fs, r) ==
  IF r.err /= NoErr THEN [list |-> <<>>, err |-> r.err]
  ELSE IF fs[r.phys].kind /= "dir" THEN [list |-> <<>>, err |-> Errno("ENOTDIR")]
  ELSE Bind(SelectSeq(NameOrder, LAMBDA n : (r.phys \o <<n>>) \in DOMAIN fs),
            LAMBDA names : Entries(fs, r.phys, names))

ReadDir(fs, p) == Bind(Namei(fs, <<>>, p, TRUE, 0), LAMBDA r : ReadDirOf(fs, r))

\* The file systems of the model. r1 and r2 are the search-path directories,
\* t is a toolchain directory outside of them.
\*   man1: the manifest's file name in r1/a, or "" for none
\*   bin1: the permission bits of r1/a/.bin/a, or -1 for no such file
\*   dock1: r1/a/Dockerfile is a regular file ("file"), a link to itself
\*          ("loop"), whose stat fails with ELOOP, or missing ("")
\*   man2: whether r2/a/Srclibtoolchain exists
\*   l, m: the targets of the links r1/l and r2/m, or NoPath for no link
Opt(cond, f) == IF cond THEN f ELSE EmptyMap

MkFs(man1, bin1, dock1, man2, l, m) ==
  (<<>> :> DirNode) @@ (<<"r1">> :> DirNode) @@ (<<"r2">> :> DirNode)
  @@ (<<"r1", "a">> :> DirNode)
  @@ (<<"r1", ".h">> :> DirNode) @@ (<<"r1", ".h", "a">> :> DirNode)
  @@ (<<"r1", ".h", "a", "Srclibtoolchain">> :> FileNode(420))
  @@ (<<"r2", "_s">> :> LinkNode(<<"t">>))
  @@ (<<"t">> :> DirNode) @@ (<<"t", "Srclibtoolchain">> :> FileNode(420))
  @@ Opt(man1 /= "", <<"r1", "a", man1>> :> FileNode(420))
  @@ Opt(bin1 >= 0, (<<"r1", "a", ".bin">> :> DirNode)
                    @@ (<<"r1", "a", ".bin", "a">> :> FileNode(bin1)))
  @@ Opt(dock1 = "file", <<"r1", "a", "Dockerfile">> :> FileNode(420))
  @@ Opt(dock1 = "loop", <<"r1", "a", "Dockerfile">>
                           :> LinkNode(<<"r1", "a", "Dockerfile">>))
  @@ Opt(man2, (<<"r2", "a">> :> DirNode)
               @@ (<<"r2", "a", "Srclibtoolchain">> :> FileNode(420)))
  @@ Opt(l /= NoPath, <<"r1", "l">> :> LinkNode(l))
  @@ Opt(m /= NoPath, <<"r2", "m">> :> LinkNode(m))

ManifestNames == {"", "Srclibtoolchain", "srclibtoolchain"}
BinPerms == {-1, 420, 64}
DockKinds == {"file", "loop"}
LinkTargetsL == {NoPath, <<"r2">>, <<"r1">>, <<"t">>, <<"t", "Srclibtoolchain">>}
LinkTargetsM == {NoPath, <<"t">>, <<"r1">>}

\* The values of SRCLIBPATH of the model, split at ":".
SearchPaths ==
  { <<<<"r1">>>>, <<<<"r1">>, <<"r2">>>>, <<<<"r2">>, <<"r1">>>>,
    <<<<"r1">>, <<"r1">>>>, <<DotStr>>, <<EmptyStr, <<"r1">>>> }

\* ------------------------------------------------------------------- Info
NilInfo == [nil |-> TRUE]

\* The 0111 of newInfo: the execute permission bits.
ExecBits == 73

\* newInfo(toolchainPath, dir, srclibtoolchain): [info, err]
DockerfileOfAlways(dstat) == "Dockerfile"

\* lines 110-115: the Dockerfile field, given the stat of dir/Dockerfile
DockerfileOf(dstat) == IF IsNotExist(dstat.err) THEN "" ELSE "Dockerfile"

\* line 117
ProgOf(toolchainPath) == Join(<<".bin">>, <<Base(toolchainPath)>>)

IsExecutableAlways(perm) == BitAnd(perm, ExecBits) >= 0

\* line 122: the program's mode has an execute bit
IsExecutable(perm) == BitAnd(perm, ExecBits) > 0

\* lines 111-132, given the stats of dir/Dockerfile and of dir/prog
newInfoOf(toolchainPath, dir, srclibtoolchain, prog, dstat, pstat) ==
  IF dstat.err /= NoErr /\ ~IsNotExist(dstat.err)
    THEN [info |-> NilInfo, err |-> dstat.err]
  ELSE IF pstat.err /= NoErr /\ ~IsNotExist(pstat.err)
    THEN [info |-> NilInfo, err |-> pstat.err]
  ELSE IF pstat.err = NoErr /\ ~IsExecutable(pstat.info.perm)
    THEN [info |-> NilInfo, err |-> [kind |-> "notExecutable", prog |-> prog]]
  ELSE [info |-> [Path |-> toolchainPath, Dir |-> dir,
                  SrclibtoolchainFile |-> srclibtoolchain,
                  Program |-> IF IsNotExist(pstat.err) THEN EmptyStr ELSE prog,
                  Dockerfile |-> DockerfileOf(dstat)],
        err |-> NoErr]

\* newInfo(toolchainPath, dir, srclibtoolchain): [info, err]
newInfo(fs, toolchainPath, dir, srclibtoolchain) ==
  Bind(<<StatFS(fs, Join(dir, <<"Dockerfile">>)),
         StatFS(fs, Join(dir, ProgOf(toolchainPath)))>>,
       LAMBDA st : newInfoOf(toolchainPath, dir, srclibtoolchain,
                             ProgOf(toolchainPath), st[1], st[2]))

\* ----------------------------------------------------------------- Lookup
\* Byte order of path strings, component by component.
RECURSIVE PathLess(_, _)
PathLess(p, q) ==
  IF q = <<>> THEN FALSE
  ELSE IF p = <<>> THEN TRUE
  ELSE IF Head(p) /= Head(q) THEN NameIndex(Head(p)) < NameIndex(Head(q))
  ELSE PathLess(Tail(p), Tail(q))

\* sort.Strings
RECURSIVE SortStrings(_)
SortStrings(xs) ==
  IF xs = <<>> THEN <<>>
  ELSE LET k == CHOOSE k \in 1..Len(xs) :
                  \A j \in 1..Len(xs) : j = k \/ ~PathLess(xs[j], xs[k])
       IN <<xs[k]>> \o SortStrings(SubSeq(xs, 1, k - 1) \o SubSeq(xs, k + 1, Len(xs)))

\* filepath.Glob of a pattern without metacharacters: the pattern itself when
\* lstat finds it, nothing otherwise.
Glob(fs, pattern) ==
  IF LstatFS(fs, pattern).err = NoErr THEN <<pattern>> ELSE <<>>

\* The loop of lookInPaths over paths[k..]: found so far -> found at the end.
AddMatchesAll(fnd, matches) == fnd \o matches

\* lines 148-154: the matches not seen before are added
AddMatches(fnd, matches) ==
  fnd \o SelectSeq(matches, LAMBDA m : \A j \in 1..Len(fnd) : fnd[j] /= m)

RECURSIVE lookInPathsFrom(_, _, _, _, _)
lookInPathsFrom(fs, pattern, paths, k, fnd) ==
  IF k > Len(paths) THEN fnd
  ELSE lookInPathsFrom(fs, pattern, paths, k + 1,
         AddMatches(fnd, Glob(fs, (IF paths[k] = EmptyStr THEN DotStr ELSE paths[k])
                                  \o pattern)))

\* lookInPaths(pattern, paths)
lookInPaths(fs, pattern, paths) ==
  SortStrings(lookInPathsFrom(fs, pattern, paths, 1, <<>>))

\* Lookup(path): [info, err]
\* lines 44-50, given the cleaned path and the matches
LookupOf(fs, path, matches) ==
  IF Len(matches) = 0 THEN [info |-> NilInfo, err |-> ErrNotExist]
  ELSE IF Len(matches) > 1
    THEN [info |-> NilInfo,
          err |-> [kind |-> "shadowed", path |-> path, toolchains |-> matches]]
  ELSE newInfo(fs, path, Dir(matches[1]), "Srclibtoolchain")

Lookup(fs, paths, name) ==
  Bind(lookInPaths(fs, Join(Clean(name), <<"Srclibtoolchain">>), paths),
       LAMBDA matches : LookupOf(fs, Clean(name), matches))

\* The toolchain paths Lookup is called with.
LookupNames ==
  { <<"a">>, <<"a", "">>, <<"l">>, <<"l", "a">>, <<"m">>, <<"l", "m">>,
    <<".h", "a">>, <<"t">> }

\* ----------------------------------------------------------------- walker
\* github.com/kr/fs Walker: the stack of items to visit (the last one next),
\* the current item and whether Step descends into it.
Item(path, st) == [path |-> path, info |-> st.info, err |-> st.err]
NoItem == [path |-> EmptyStr, info |-> NoFileInfo, err |-> NoErr]

\* fs.Walk(root)
Walk(fs, root) ==
  [stack |-> <<Item(root, LstatFS(fs, root))>>, cur |-> NoItem, descend |-> FALSE]

\* The items Step pushes for the entries of the current directory, the first
\* entry last (on top).
ChildrenOf(cur, rd) ==
  IF rd.err /= NoErr
    THEN <<[cur EXCEPT !.err = rd.err]>>
    ELSE [k \in 1..Len(rd.list) |->
            [path |-> Join(cur.path, <<rd.list[Len(rd.list) + 1 - k].name>>),
             info |-> rd.list[Len(rd.list) + 1 - k], err |-> NoErr]]

Children(fs, wk) ==
  Bind(ReadDir(fs, wk.cur.path), LAMBDA rd : ChildrenOf(wk.cur, rd))

\* The end of Step: the top of the stack becomes the current item.
Pop(wk, stack) ==
  IF Len(stack) = 0 THEN [ok |-> FALSE, w |-> [wk EXCEPT !.stack = stack]]
  ELSE [ok |-> TRUE,
        w |-> [stack |-> SubSeq(stack, 1, Len(stack) - 1),
               cur |-> stack[Len(stack)], descend |-> TRUE]]

\* w.Step(): [ok, w]
Step(fs, wk) ==
  Bind(IF wk.descend /\ wk.cur.err = NoErr /\ wk.cur.info.kind = "dir"
         THEN wk.stack \o Children(fs, wk) ELSE wk.stack,
       LAMBDA stack : Pop(wk, stack))

\* ------------------------------------------------------------------ state
VARIABLES
  fsys,        \* the file system
  SrclibPath,  \* SRCLIBPATH, as the list of its ":"-separated directories
  pc,          \* the caller: "idle", inside List ("loop": at the for of line
               \* 63, "step": at w.Step() of line 69), "listed": List has
               \* returned, "looked": Lookup has returned
  found, seen, dirs, origDirs, i, w,   \* the locals of List (i counts from 1)
  listRet,     \* what List returned: [value, err]
  lookupArg, lookupRet   \* the last call of Lookup: its argument and [info, err]

listVars == <<found, seen, dirs, origDirs, i, w, listRet>>
vars == <<fsys, SrclibPath, pc, found, seen, dirs, origDirs, i, w, listRet,
          lookupArg, lookupRet>>

NoRet == [value |-> <<>>, err |-> [kind |-> "none"]]
NoLookup == [info |-> NilInfo, err |-> [kind |-> "none"]]

InitCalls ==
  /\ pc = "idle"
  /\ found = <<>> /\ seen = EmptyMap /\ dirs = <<>> /\ origDirs = EmptyMap
  /\ i = 1 /\ w = [stack |-> <<>>, cur |-> NoItem, descend |-> FALSE]
  /\ listRet = NoRet
  /\ lookupArg = EmptyStr /\ lookupRet = NoLookup

Init ==
  /\ \E man1 \in ManifestNames, bin1 \in BinPerms, dock1 \in DockKinds,
        man2 \in BOOLEAN, l \in LinkTargetsL, m \in LinkTargetsM :
       /\ man1 = "" => bin1 = -1 /\ dock1 = "file"
       /\ fsys = MkFs(man1, bin1, dock1, man2, l, m)
  /\ SrclibPath \in SearchPaths
  /\ InitCalls

\* The file systems whose toolchain r1/a has a Dockerfile and an executable
\* program.
InitLive ==
  /\ \E man2 \in BOOLEAN, l \in LinkTargetsL, m \in LinkTargetsM :
       fsys = MkFs("Srclibtoolchain", 64, "file", man2, l, m)
  /\ SrclibPath \in SearchPaths
  /\ InitCalls

\* ------------------------------------------------------------------- List
\* dir of line 64-67
CurDir == IF dirs[i] = EmptyStr THEN DotStr ELSE dirs[i]

IsSkippedDotOnly(path, dir, name) == path /= dir /\ FirstChar(name) = "."

\* line 76: the entry is skipped
IsSkipped(path, dir, name) ==
  path /= dir /\ (FirstChar(name) = "." \/ FirstChar(name) = "_")

\* line 83: the entry is a manifest
IsManifest(fi) == fi.kind = "file" /\ ToLower(fi.name) = "srclibtoolchain"

BaseOfNoOrigin(od, dir) == dir

\* lines 84-89: the directory toolchain paths are relative to
BaseOf(od, dir) == IF dir \in DOMAIN od THEN od[dir] ELSE dir

\* line 91
ToolchainPath(od, dir, path) == Rel(BaseOf(od, dir), Dir(path))

IsShadowedNever(sn, toolchainPath, dir) == FALSE

\* line 93: the toolchain path was seen before
IsShadowed(sn, toolchainPath, dir) == toolchainPath \in DOMAIN sn

\* lines 55-63: List is called
ListBegin ==
  /\ pc \in {"idle", "listed", "looked"}
  /\ found' = <<>> /\ seen' = EmptyMap
  /\ dirs' = SrclibPath /\ origDirs' = EmptyMap
  /\ i' = 1 /\ listRet' = NoRet
  /\ pc' = "loop"
  /\ UNCHANGED <<fsys, SrclibPath, w, lookupArg, lookupRet>>

\* lines 63-68: the next directory's walk begins
ListWalk ==
  /\ pc = "loop" /\ i <= Len(dirs)
  /\ w' = Walk(fsys, CurDir)
  /\ pc' = "step"
  /\ UNCHANGED <<fsys, SrclibPath, found, seen, dirs, origDirs, i, listRet,
                 lookupArg, lookupRet>>

ListReturnOffByOne ==
  /\ pc = "loop" /\ i > Len(dirs) + 1
  /\ listRet' = [value |-> found, err |-> NoErr]
  /\ pc' = "listed"
  /\ UNCHANGED <<fsys, SrclibPath, found, seen, dirs, origDirs, i, w,
                 lookupArg, lookupRet>>

\* line 63 and 106: no directory is left
ListReturn ==
  /\ pc = "loop" /\ i > Len(dirs)
  /\ listRet' = [value |-> found, err |-> NoErr]
  /\ pc' = "listed"
  /\ UNCHANGED <<fsys, SrclibPath, found, seen, dirs, origDirs, i, w,
                 lookupArg, lookupRet>>

FailedPartial(err) == [value |-> found, err |-> err]

\* What List returns with an error (lines 71, 94, 100).
Failed(err) == [value |-> <<>>, err |-> err]

\* line 69, Step is false: the walk of dirs[i] is over
ListEndWalk ==
  /\ pc = "step"
  /\ \E st \in {Step(fsys, w)} : ~st.ok /\ w' = st.w
  /\ i' = i + 1
  /\ pc' = "loop"
  /\ UNCHANGED <<fsys, SrclibPath, found, seen, dirs, origDirs, listRet,
                 lookupArg, lookupRet>>

\* lines 70-72: the walk met an error
ListWalkErr ==
  /\ pc = "step"
  /\ \E st \in {Step(fsys, w)} : st.ok /\
     LET s == st.w
     IN /\ s.cur.err /= NoErr
        /\ w' = s
        /\ listRet' = Failed(s.cur.err)
        /\ pc' = "listed"
  /\ UNCHANGED <<fsys, SrclibPath, found, seen, dirs, origDirs, i,
                 lookupArg, lookupRet>>

\* lines 76-77: a "." or "_" entry is skipped
ListSkip ==
  /\ pc = "step"
  /\ \E st \in {Step(fsys, w)} : st.ok /\
     LET s == st.w
     IN /\ s.cur.err = NoErr
        /\ IsSkipped(s.cur.path, CurDir, s.cur.info.name)
        /\ w' = [s EXCEPT !.descend = FALSE]
  /\ UNCHANGED <<fsys, SrclibPath, pc, found, seen, dirs, origDirs, i, listRet,
                 lookupArg, lookupRet>>

\* lines 78-82: a symlink becomes a directory to walk
ListSymlink ==
  /\ pc = "step"
  /\ \E st \in {Step(fsys, w)} : st.ok /\
     LET s == st.w
     IN /\ s.cur.err = NoErr
        /\ ~IsSkipped(s.cur.path, CurDir, s.cur.info.name)
        /\ s.cur.info.kind = "link"
        /\ w' = s
        /\ dirs' = Append(dirs, s.cur.path \o <<"">>)
        /\ origDirs' = ((s.cur.path \o <<"">>) :> CurDir) @@ origDirs
  /\ UNCHANGED <<fsys, SrclibPath, pc, found, seen, i, listRet,
                 lookupArg, lookupRet>>

\* lines 83-96: a manifest whose toolchain path was seen
ListConflict ==
  /\ pc = "step"
  /\ \E st \in {Step(fsys, w)} : st.ok /\
     LET s == st.w
     IN /\ s.cur.err = NoErr
        /\ ~IsSkipped(s.cur.path, CurDir, s.cur.info.name)
        /\ s.cur.info.kind /= "link"
        /\ IsManifest(s.cur.info)
        /\ \E tp \in {ToolchainPath(origDirs, CurDir, s.cur.path)} :
             /\ IsShadowed(seen, tp, Dir(s.cur.path))
             /\ w' = s
             /\ listRet' = Failed([kind |-> "conflict", path |-> tp,
                                   dirs |-> <<seen[tp], Dir(s.cur.path)>>])
             /\ pc' = "listed"
  /\ UNCHANGED <<fsys, SrclibPath, found, seen, dirs, origDirs, i,
                 lookupArg, lookupRet>>

\* lines 83-101: a manifest whose Info cannot be built
ListInfoErr ==
  /\ pc = "step"
  /\ \E st \in {Step(fsys, w)} : st.ok /\
     LET s == st.w
     IN /\ s.cur.err = NoErr
        /\ ~IsSkipped(s.cur.path, CurDir, s.cur.info.name)
        /\ s.cur.info.kind /= "link"
        /\ IsManifest(s.cur.info)
        /\ \E tp \in {ToolchainPath(origDirs, CurDir, s.cur.path)} :
             /\ ~IsShadowed(seen, tp, Dir(s.cur.path))
             /\ \E r \in {newInfo(fsys, tp, Dir(s.cur.path), s.cur.info.name)} :
                  /\ r.err /= NoErr
                  /\ w' = s
                  /\ seen' = (tp :> Dir(s.cur.path)) @@ seen
                  /\ listRet' = Failed(r.err)
                  /\ pc' = "listed"
  /\ UNCHANGED <<fsys, SrclibPath, found, dirs, origDirs, i, lookupArg, lookupRet>>

\* lines 83-102: a manifest whose Info is found
ListFound ==
  /\ pc = "step"
  /\ \E st \in {Step(fsys, w)} : st.ok /\
     LET s == st.w
     IN /\ s.cur.err = NoErr
        /\ ~IsSkipped(s.cur.path, CurDir, s.cur.info.name)
        /\ s.cur.info.kind /= "link"
        /\ IsManifest(s.cur.info)
        /\ \E tp \in {ToolchainPath(origDirs, CurDir, s.cur.path)} :
             /\ ~IsShadowed(seen, tp, Dir(s.cur.path))
             /\ \E r \in {newInfo(fsys, tp, Dir(s.cur.path), s.cur.info.name)} :
                  /\ r.err = NoErr
                  /\ w' = s
                  /\ seen' = (tp :> Dir(s.cur.path)) @@ seen
                  /\ found' = Append(found, r.info)
  /\ UNCHANGED <<fsys, SrclibPath, pc, dirs, origDirs, i, listRet,
                 lookupArg, lookupRet>>

\* lines 69-104: any other entry is passed
ListPass ==
  /\ pc = "step"
  /\ \E st \in {Step(fsys, w)} : st.ok /\
     LET s == st.w
     IN /\ s.cur.err = NoErr
        /\ ~IsSkipped(s.cur.path, CurDir, s.cur.info.name)
        /\ s.cur.info.kind /= "link"
        /\ ~IsManifest(s.cur.info)
        /\ w' = s
  /\ UNCHANGED <<fsys, SrclibPath, pc, found, seen, dirs, origDirs, i, listRet,
                 lookupArg, lookupRet>>

ListStep ==
  \/ ListEndWalk \/ ListWalkErr \/ ListSkip \/ ListSymlink
  \/ ListConflict \/ ListInfoErr \/ ListFound \/ ListPass

\* Lookup(name) is called and returns
LookupCall ==
  /\ pc \in {"idle", "listed", "looked"}
  /\ \E name \in LookupNames :
       /\ lookupArg' = name
       /\ lookupRet' = Lookup(fsys, SrclibPath, name)
  /\ pc' = "looked"
  /\ UNCHANGED <<fsys, SrclibPath, found, seen, dirs, origDirs, i, w, listRet>>

Next == ListBegin \/ ListWalk \/ ListStep \/ ListReturn \/ LookupCall

Spec == Init /\ [][Next]_vars

\* List alone, called again and again. It runs on once called: the loops of
\* a synchronous function are not preempted.
NextList == ListBegin \/ ListWalk \/ ListStep \/ ListReturn

FairSpec == Init /\ [][NextList]_vars /\ WF_vars(NextList)

\* The file system changes between the calls: a Dockerfile or an installed
\* program is removed.
Without(fs, p) == [q \in DOMAIN fs \ {p} |-> fs[q]]

RemoveDockerfile ==
  /\ pc \in {"idle", "looked"}
  /\ \E p \in DOMAIN fsys :
       /\ p /= <<>> /\ p[Len(p)] = "Dockerfile" /\ fsys[p].kind = "file"
       /\ fsys' = Without(fsys, p)
  /\ pc' = "idle"
  /\ UNCHANGED <<SrclibPath, found, seen, dirs, origDirs, i, w, listRet,
                 lookupArg, lookupRet>>

RemoveProgram ==
  /\ pc \in {"idle", "looked"}
  /\ \E p \in DOMAIN fsys :
       /\ Len(p) >= 2 /\ p[Len(p) - 1] = ".bin" /\ fsys[p].kind = "file"
       /\ fsys' = Without(fsys, p)
  /\ pc' = "idle"
  /\ UNCHANGED <<SrclibPath, found, seen, dirs, origDirs, i, w, listRet,
                 lookupArg, lookupRet>>

NextLive == LookupCall \/ RemoveDockerfile \/ RemoveProgram

SpecLive == InitLive /\ [][NextLive]_vars

\* ----------------------------------------------------------------- claims
\* The directories of the search path, "" read as ".".
SearchDirs ==
  { IF SrclibPath[k] = EmptyStr THEN DotStr ELSE SrclibPath[k] : k \in 1..Len(SrclibPath) }

Listed == listRet /= NoRet
Looked == lookupRet /= NoLookup
Infos(xs) == { xs[k] : k \in 1..Len(xs) }

\* The toolchain names the claims are about.
ToolchainNames == { Clean(n) : n \in LookupNames } \cup { <<"r1", "a">>, <<"r1", "l">> }

\* The manifests that resolve to the name X: a search-path directory d and a
\* file name n, "srclibtoolchain" in any case, with d/X/n in the file system.
ManifestsOf(X) ==
  { dn \in SearchDirs \X {"Srclibtoolchain", "srclibtoolchain"} :
      LstatFS(fsys, dn[1] \o X \o <<dn[2]>>).err = NoErr }

\* The distinct matches of <dir>/<X>/Srclibtoolchain over the search path.
GlobMatches(X) ==
  { m \in { d \o X \o <<"Srclibtoolchain">> : d \in SearchDirs } :
      LstatFS(fsys, m).err = NoErr }

HiddenName(n) == FirstChar(n) \in {".", "_"}

\* p lies below root, and no directory from root down to p is hidden.
NoHiddenBelow(root, p) ==
  LET c == Clean(root)
      from == IF c = DotStr THEN 1 ELSE Len(c) + 1
  IN /\ c = DotStr \/ IsPrefix(c, p)
     /\ p = DotStr \/ \A k \in from..Len(p) : ~HiddenName(p[k])

\* The links on the way from d down to d/X.
LinksBelow(d, X) ==
  { k \in 1..Len(X) : LstatFS(fsys, d \o SubSeq(X, 1, k)).info.kind = "link" }

\* D/.bin/<basename(N)> exists and has no execute permission bit.
NotExecutable(N, D) ==
  LET st == StatFS(fsys, D \o <<".bin", Base(N)>>)
  IN st.err = NoErr /\ st.info.perm \in {420, 384, 256, 0}

\* The stat of D/Dockerfile fails, and not because the file is missing.
DockerfileFails(D) ==
  StatFS(fsys, D \o <<"Dockerfile">>).err \notin {NoErr, ErrNotExist}

\* What an Info says of its program agrees with the file system.
ProgramAgrees(info) ==
  LET st == StatFS(fsys, info.Dir \o <<".bin", Base(info.Path)>>)
  IN /\ info.Program /= EmptyStr =>
          st.err = NoErr /\ st.info.perm \notin {420, 384, 256, 0}
     /\ info.Program = EmptyStr <=> st.err = ErrNotExist

Plain(X, dn) ==
  /\ dn[2] = "Srclibtoolchain"
  /\ LstatFS(fsys, dn[1] \o X \o <<dn[2]>>).info.kind = "file"
  /\ X = DotStr \/ \A k \in 1..Len(X) : ~HiddenName(X[k])
  /\ Cardinality(LinksBelow(dn[1], X)) <= 1

Clash(d1, d2) ==
  /\ d1 \in SearchDirs /\ d2 \in SearchDirs /\ d1 /= d2
  /\ LstatFS(fsys, d1 \o <<"a", "Srclibtoolchain">>).info.kind = "file"
  /\ LstatFS(fsys, d2 \o <<"a", "Srclibtoolchain">>).info.kind = "file"

ClashDirs == { <<"r1">>, <<"r2">>, DotStr }

\* Lookup("a") failed with the conflict of d1/a and d2/a.
LookupShadowed(d1, d2) ==
  /\ lookupRet.info = NilInfo
  /\ lookupRet.err.kind = "shadowed"
  /\ { d1 \o <<"a", "Srclibtoolchain">>, d2 \o <<"a", "Srclibtoolchain">> }
       \subseteq Infos(lookupRet.err.toolchains)

\* List() failed with the conflict of d1/a and d2/a.
ListConflicted(d1, d2) ==
  /\ listRet.value = <<>>
  /\ listRet.err.kind = "conflict"
  /\ listRet.err.path = <<"a">>
  /\ { listRet.err.dirs[1], listRet.err.dirs[2] } = { Join(d1, <<"a">>), Join(d2, <<"a">>) }

\* C2 as stated: with a/Srclibtoolchain in two search-path directories,
\* Lookup("a") and List() both fail with the conflict naming both.
C2_ClashBothConflict ==
  \A d1 \in ClashDirs, d2 \in ClashDirs :
    Clash(d1, d2) =>
      /\ Looked /\ Clean(lookupArg) = <<"a">> => LookupShadowed(d1, d2)
      /\ Listed => ListConflicted(d1, d2)

\* The walk of List() stands at the manifest of one of d1/a and d2/a having
\* seen the other.
ReachedBoth(d1, d2) ==
  /\ <<"a">> \in DOMAIN seen
  /\ { seen[<<"a">>], Dir(w.cur.path) } = { Join(d1, <<"a">>), Join(d2, <<"a">>) }
  /\ Base(w.cur.path) = "Srclibtoolchain"

\* C2 amended: Lookup("a") fails with the conflict naming both directories;
\* List() fails and returns nothing, with the conflict naming both directories
\* once its walk has reached the manifests of both.
C2_ClashConflictWhenReached ==
  \A d1 \in ClashDirs, d2 \in ClashDirs :
    Clash(d1, d2) =>
      /\ Looked /\ Clean(lookupArg) = <<"a">> => LookupShadowed(d1, d2)
      /\ Listed => /\ listRet.err /= NoErr /\ listRet.value = <<>>
                   /\ ReachedBoth(d1, d2) => ListConflicted(d1, d2)

C2_Witness ==
  /\ Clash(<<"r1">>, <<"r2">>) /\ Listed /\ Looked /\ lookupArg = <<"a">>
  /\ ReachedBoth(<<"r1">>, <<"r2">>)
  /\ ListConflicted(<<"r1">>, <<"r2">>) /\ LookupShadowed(<<"r1">>, <<"r2">>)

\* C3: every origin recorded for a redirected root is a directory of the
\* search path, and every toolchain List() finds is named by the path of its
\* directory from a directory of the search path.
C3_OriginIsSearchPathEntry ==
  /\ \A d \in DOMAIN origDirs : origDirs[d] \in SearchDirs
  /\ \A info \in Infos(found) :
       \E d \in SearchDirs : info.Path = Rel(d, info.Dir)

\* C4: no Info of List() lies below a "." or "_" entry of the walked root, no
\* such entry that is a link becomes a walk root, and the walk never stands
\* below one; the walk root itself may be named so.
C4_HiddenPruned ==
  /\ \A info \in Infos(found) :
       \E j \in 1..Len(dirs) : NoHiddenBelow(dirs[j], info.Dir)
  /\ \A k \in 1..Len(dirs) :
       k > Len(SrclibPath) => \E j \in 1..(k - 1) : NoHiddenBelow(dirs[j], Clean(dirs[k]))
  /\ (pc = "step" /\ w.cur /= NoItem /\ w.cur.path /= CurDir) =>
       NoHiddenBelow(CurDir, Dir(w.cur.path))
  /\ Listed => \A info \in Infos(listRet.value) : info \in Infos(found)

C4_Witness ==
  /\ Listed /\ SrclibPath = <<DotStr>> /\ listRet.err = NoErr
  /\ \E info \in Infos(listRet.value) : info.Dir = <<"r1", "a">>
  /\ LstatFS(fsys, <<"r1", ".h", "a", "Srclibtoolchain">>).err = NoErr

\* C5 as stated: Lookup(name) returns NotFound for no match, an Info of the
\* match's directory for one match, the conflict of all matches for more.
C5_ThreeOutcomes ==
  Looked =>
    LET M == GlobMatches(Clean(lookupArg))
    IN /\ Cardinality(M) = 0 => lookupRet = [info |-> NilInfo, err |-> ErrNotExist]
       /\ Cardinality(M) = 1 =>
            /\ lookupRet.err = NoErr
            /\ \A m \in M : lookupRet.info.Dir = Dir(m)
       /\ Cardinality(M) > 1 =>
            /\ lookupRet.info = NilInfo
            /\ lookupRet.err.kind = "shadowed"
            /\ Infos(lookupRet.err.toolchains) = M

\* C5 amended: for one match Lookup(name) returns what building the Info of the
\* match's directory gives, the Info or the error of building it.
C5_OneMatchBuildsInfo ==
  Looked =>
    LET M == GlobMatches(Clean(lookupArg))
    IN /\ Cardinality(M) = 0 => lookupRet = [info |-> NilInfo, err |-> ErrNotExist]
       /\ Cardinality(M) = 1 =>
            \A m \in M :
              \/ /\ lookupRet.err = NoErr
                 /\ lookupRet.info.Dir = Dir(m)
                 /\ lookupRet.info.Path = Clean(lookupArg)
                 /\ ~NotExecutable(Clean(lookupArg), Dir(m))
                 /\ ~DockerfileFails(Dir(m))
              \/ /\ lookupRet.info = NilInfo
                 /\ DockerfileFails(Dir(m))
                 /\ lookupRet.err = StatFS(fsys, Dir(m) \o <<"Dockerfile">>).err
              \/ /\ lookupRet.info = NilInfo
                 /\ ~DockerfileFails(Dir(m))
                 /\ NotExecutable(Clean(lookupArg), Dir(m))
                 /\ lookupRet.err.kind = "notExecutable"
       /\ Cardinality(M) > 1 =>
            /\ lookupRet.info = NilInfo
            /\ lookupRet.err.kind = "shadowed"
            /\ Infos(lookupRet.err.toolchains) = M

C5_Witness ==
  /\ Looked /\ Cardinality(GlobMatches(Clean(lookupArg))) = 1
  /\ lookupRet.err.kind = "notExecutable"
  /\ Len(SrclibPath) = 2

\* C6: List() returns an error with an empty result, whatever it had found,
\* and a result only with no error.
C6_AllOrNothing ==
  Listed =>
    /\ listRet.err /= NoErr => listRet.value = <<>>
    /\ listRet.err = NoErr => listRet.value = found

C6_Witness ==
  Listed /\ listRet.err /= NoErr /\ Len(found) >= 1 /\ listRet.value = <<>>

\* C7 as stated: a program without execute bits makes Lookup and List() fail
\* with the not-executable error; an Info has its program set only for a file
\* with an execute bit and unset exactly when the file is missing.
C7_ProgramChecked ==
  /\ Looked =>
       /\ \A m \in GlobMatches(Clean(lookupArg)) :
            (GlobMatches(Clean(lookupArg)) = {m}
               /\ NotExecutable(Clean(lookupArg), Dir(m))) =>
              lookupRet.info = NilInfo /\ lookupRet.err.kind = "notExecutable"
       /\ lookupRet.err = NoErr => ProgramAgrees(lookupRet.info)
  /\ \A N \in DOMAIN seen :
       NotExecutable(N, seen[N]) =>
         Listed /\ listRet.value = <<>> /\ listRet.err.kind = "notExecutable"
  /\ \A info \in Infos(found) : ProgramAgrees(info)
  /\ Listed => \A info \in Infos(listRet.value) : ProgramAgrees(info)

\* How building the Info of the toolchain in D with a program without execute
\* bits fails: with the error of the stat of D/Dockerfile when that fails, with
\* the not-executable error otherwise.
FailsUnbuilt(err, D) ==
  IF DockerfileFails(D) THEN err = StatFS(fsys, D \o <<"Dockerfile">>).err
                        ELSE err.kind = "notExecutable"

\* C7 amended: a program without execute bits makes Lookup and List() fail,
\* with the not-executable error unless the stat of the Dockerfile has failed
\* before; an Info has its program set only for a file with an execute bit and
\* unset exactly when the file is missing.
C7_ProgramCheckedAfterDockerfile ==
  /\ Looked =>
       /\ \A m \in GlobMatches(Clean(lookupArg)) :
            (GlobMatches(Clean(lookupArg)) = {m}
               /\ NotExecutable(Clean(lookupArg), Dir(m))) =>
              lookupRet.info = NilInfo /\ FailsUnbuilt(lookupRet.err, Dir(m))
       /\ lookupRet.err = NoErr => ProgramAgrees(lookupRet.info)
  /\ \A N \in DOMAIN seen :
       NotExecutable(N, seen[N]) =>
         Listed /\ listRet.value = <<>> /\ FailsUnbuilt(listRet.err, seen[N])
  /\ \A info \in Infos(found) : ProgramAgrees(info)
  /\ Listed => \A info \in Infos(listRet.value) : ProgramAgrees(info)

C7_Witness ==
  /\ Listed /\ listRet.err.kind = "notExecutable"
  /\ Looked /\ lookupRet.err.kind = "notExecutable"
  /\ NotExecutable(<<"a">>, <<"r1", "a">>) /\ ~DockerfileFails(<<"r1", "a">>)

\* C9: List() raises a conflict only for the same name from a different
\* directory, and before the second Info is added.
C9_ConflictNeedsOtherDir ==
  /\ (Listed /\ listRet.err.kind = "conflict") =>
       listRet.err.dirs[1] /= listRet.err.dirs[2]
  /\ \A j, k \in 1..Len(found) : found[j].Path = found[k].Path => j = k

\* The file dir/name is in the file system.
Exists(fs, dir, name) == StatFS(fs, dir \o name).err = NoErr

\* C8: a Lookup of the toolchain whose earlier Info had both a Dockerfile and
\* a program reports each of the two fields by what the file system holds
\* now: removing one file empties its field and leaves the other field.
C8_FieldsFollowFiles ==
  [][ (pc' = "looked" /\ Clean(lookupArg') = Clean(lookupArg)
       /\ lookupRet.err = NoErr
       /\ lookupRet.info.Dockerfile = "Dockerfile"
       /\ lookupRet.info.Program /= EmptyStr) =>
        /\ lookupRet'.err = NoErr
        /\ lookupRet'.info.Dir = lookupRet.info.Dir
        /\ lookupRet'.info.Dockerfile =
             (IF Exists(fsys', lookupRet.info.Dir, <<"Dockerfile">>)
                THEN lookupRet.info.Dockerfile ELSE "")
        /\ lookupRet'.info.Program =
             (IF Exists(fsys', lookupRet.info.Dir, lookupRet.info.Program)
                THEN lookupRet.info.Program ELSE EmptyStr) ]_vars

\* The Dockerfile was removed and the toolchain resolved again.
C8_Witness ==
  /\ pc = "looked" /\ lookupRet.err = NoErr
  /\ lookupRet.info.Dockerfile = "" /\ lookupRet.info.Program = <<".bin", "a">>
  /\ ~Exists(fsys, lookupRet.info.Dir, <<"Dockerfile">>)
  /\ Exists(fsys, lookupRet.info.Dir, <<".bin", "a">>)

\* C10: List(), once called, returns.
C10_ListTerminates == (pc = "loop") ~> (listRet /= NoRet)

\* List() has returned from a cycle of links, stopped by the kernel's limit.
C10_Witness ==
  /\ Listed /\ listRet.err = Errno("ELOOP")
  /\ LstatFS(fsys, <<"r1", "l">>).info.kind = "link"
  /\ fsys[<<"r1", "l">>].target = <<"r1">>
  /\ ~DockerfileFails(<<"r1", "a">>)

====
